---------------------------- MODULE Spec2Model ----------------------------
(***************************************************************************)
(* A model of the digital-content broker: the two service variants         *)
(* (src/server.js, the early one, and src/unnamed/part_000, the full       *)
(* one), their auth middleware, the feed-items route and the newsletter    *)
(* digest route with its per-feed fetch loop, URL dedupe, digital-first    *)
(* classifier, section ranking and citations.                              *)
(*                                                                         *)
(* Representation.                                                         *)
(*  - A JavaScript string that a regular expression reads is a sequence of *)
(*    tokens (words); consecutive tokens of one string are separated by a  *)
(*    single space.  The empty string is << >>.                            *)
(*  - null / undefined for such a value is the sentinel Null.              *)
(*  - Keys and identifiers are TLA+ strings; an unset environment          *)
(*    variable or a missing header is the sentinel Undefined.              *)
(*  - A number produced by Number(...) is a record [nan, halves]: the      *)
(*    value is halves / 2 (so 2.5 is halves = 5), or NaN.                  *)
(*                                                                         *)
(* Scope.  Requests carry a body that express.json() can parse; the limit  *)
(* and since_hours parameters of the feed-items route are absent; one      *)
(* request is served at a time, the handlers sharing no mutable state.     *)
(* Array.prototype.sort is the stable sort of ES2019 (the code needs the   *)
(* global fetch of Node 18 or later).                                      *)
(***************************************************************************)
EXTENDS Integers, Sequences, FiniteSets, TLC

VARIABLES
    variant,        \* which service file is deployed: "server" or "broker"
    BROKER_KEY,     \* process.env.BROKER_KEY
    NEWSAPI_KEY,    \* process.env.NEWSAPI_KEY
    corpus,         \* the provider's index: "empty", "sparse" or "bulk"
    pc,             \* "idle", "items_await", "digest_await", "done"
    req,            \* the request being served
    res,            \* the response sent
    handlerRan,     \* a route handler was entered for this request
    providerCalls,  \* feed_ids of the outbound provider requests, in order
    outcomes,       \* how each answered provider request ended: "ok" or a failure
    selected,       \* digest: the catalog feeds selected by body.sources
    all,            \* digest: items collected so far, in collection order
    byUrl           \* digest: the values of the dedupe map, in its order

vars == <<variant, BROKER_KEY, NEWSAPI_KEY, corpus, pc, req, res,
          handlerRan, providerCalls, outcomes, selected, all, byUrl>>

----------------------------------------------------------------------------
(* Bounds of the model and constants of the program *)

\* explicit max_items_per_section values range over -MaxItemsRange..MaxItemsRange
MaxItemsRange == 2
\* number of distinct generated titles cycled through a bulk page
BulkTitleCycle == 10

DefaultMaxItems == 6
DefaultLimit == 15
MaxLimit == 50
DigestPageSize == 50
CitationCap == 200

Undefined == "<undefined>"
Null == <<"<null>">>

\* JavaScript truthiness of a string value (null, undefined and "" are falsy)
Truthy(s) == s # Null /\ s # << >>
TruthyKey(k) == k # Undefined /\ k # ""

\* a || b
OrElse(a, b) == IF Truthy(a) THEN a ELSE b

----------------------------------------------------------------------------
(* Text: lower-casing and regular-expression tests over token sequences *)

\* String.prototype.toLowerCase on one token
LowerToken(t) ==
    CASE t = "TikTok" -> "tiktok"
      [] t = "YouTube" -> "youtube"
      [] t = "Shorts" -> "shorts"
      [] t = "Netflix" -> "netflix"
      [] t = "Weather" -> "weather"
      [] t = "Creator" -> "creator"
      [] t = "Case" -> "case"
      [] OTHER -> t

toLowerCase(s) == [i \in 1..Len(s) |-> LowerToken(s[i])]

\* the pattern words that occur inside a (lower-case) token as substrings
Substrings(t) ==
    CASE t = "announced" -> {"announced", "announce"}
      [] t = "launches" -> {"launches", "launch"}
      [] t = "downloads" -> {"downloads", "ads"}
      [] t = "episodes" -> {"episodes", "episod"}
      [] t = "monetization" -> {"monetization", "monetiz"}
      [] OTHER -> {t}

\* a phrase (sequence of pattern words) occurs in text at position i
PhraseAt(phrase, text, i) ==
    /\ i + Len(phrase) - 1 <= Len(text)
    /\ \A j \in 1..Len(phrase) :
          IF Len(phrase) = 1
             THEN phrase[j] \in Substrings(text[i + j - 1])
             ELSE phrase[j] = text[i + j - 1]

\* RegExp.prototype.test for an alternation of phrases
Test(pattern, text) ==
    \E phrase \in pattern : \E i \in 1..Len(text) : PhraseAt(phrase, text, i)

LinearPattern ==
    {<<"broadcast">>, <<"linear", "tv">>, <<"cable">>, <<"syndication">>}

StreamingPattern ==
    {<<"netflix">>, <<"prime", "video">>, <<"disney+">>, <<"hulu">>,
     <<"paramount+">>, <<"apple", "tv">>, <<"streaming">>}

digitalHints ==
    {<<"youtube">>, <<"tiktok">>, <<"instagram">>, <<"shorts">>, <<"reels">>,
     <<"creator">>, <<"web", "series">>, <<"newsletter">>, <<"substack">>,
     <<"patreon">>, <<"discord">>}

\* the line separator of the classifier's template string
NL == "\\n"

Includes(seq, x) == \E i \in 1..Len(seq) : seq[i] = x

\* what the classifier's text is built from
classifyText(title, description, url) ==
    toLowerCase(title \o <<NL>> \o description \o <<NL>> \o url)

excludedReasons(text, exclude) ==
    (IF Includes(exclude, "linear") /\ Test(LinearPattern, text)
        THEN <<"linear">> ELSE << >>)
    \o
    (IF Includes(exclude, "streaming") /\ Test(StreamingPattern, text)
        THEN <<"streaming">> ELSE << >>)

classifyDigitalFirst(title, description, url, exclude) ==
    LET text == classifyText(title, description, url)
        excluded_reasons == excludedReasons(text, exclude)
    IN  [digital_first |-> Len(excluded_reasons) = 0 /\ Test(digitalHints, text),
         excluded_reasons |-> excluded_reasons]

----------------------------------------------------------------------------
(* The feed catalog of each variant *)

Feed(id, name, domains) == [feed_id |-> id, name |-> name, domains |-> domains]

ServerFEEDS ==
    << Feed("tubefilter", "Tubefilter", <<"tubefilter.com">>),
       Feed("ppc_land", "PPC Land", <<"ppc.land">>),
       Feed("hollywood_reporter", "Hollywood Reporter", <<"hollywoodreporter.com">>),
       Feed("publishpress", "PublishPress", <<"publishpress.com">>),
       Feed("google_news_youtube_series_us_en", "YouTube Series (proxy)",
            <<"tubefilter.com", "hollywoodreporter.com", "variety.com", "deadline.com">>),
       Feed("tiktok_creativecenter_trends", "TikTok Trends (proxy)",
            <<"adweek.com", "digiday.com", "socialmediatoday.com", "sproutsocial.com">>) >>

BrokerFEEDS ==
    << Feed("ppc_land", "PPC Land", <<"ppc.land">>),
       Feed("tubefilter", "Tubefilter", <<"tubefilter.com">>),
       Feed("publishpress", "PublishPress", <<"publishpress.com">>),
       Feed("hollywood_reporter", "The Hollywood Reporter", <<"hollywoodreporter.com">>),
       Feed("google_news_youtube_series_us_en", "YouTube Series (US/EN) - proxy bundle",
            <<"tubefilter.com", "hollywoodreporter.com", "deadline.com", "variety.com",
              "digiday.com", "adweek.com", "theverge.com", "techcrunch.com",
              "venturebeat.com", "fastcompany.com">>),
       Feed("tiktok_creativecenter_trends", "TikTok Trends - proxy bundle",
            <<"socialmediatoday.com", "later.com", "sproutsocial.com", "hootsuite.com",
              "buffer.com", "searchenginejournal.com", "adweek.com", "digiday.com",
              "theverge.com", "techcrunch.com">>) >>

FEEDS == IF variant = "server" THEN ServerFEEDS ELSE BrokerFEEDS

\* FEEDS.find(f => f.feed_id === id): the index of the first match, or 0
FindFeed(id) ==
    IF \E i \in 1..Len(FEEDS) : FEEDS[i].feed_id = id
       THEN CHOOSE i \in 1..Len(FEEDS) :
               /\ FEEDS[i].feed_id = id
               /\ \A j \in 1..(i - 1) : FEEDS[j].feed_id # id
       ELSE 0

----------------------------------------------------------------------------
(* The provider: what NewsAPI may answer *)

Article(title, description, url, publishedAt) ==
    [title |-> title, description |-> description, url |-> url,
     publishedAt |-> publishedAt]

ArtLaunch ==
    Article(<<"TikTok", "Shorts", "launch", "announced">>, << >>,
            <<"https://", "tubefilter.com", "/", "a">>, <<"2024-01-01">>)
ArtStreaming ==
    Article(<<"Netflix", "streaming">>, <<"Creator", "series", "downloads">>,
            <<"https://", "variety.com", "/", "b">>, <<"2024-01-02">>)
\* the same url as ArtLaunch, re-indexed with another title and no timestamp
ArtLaunchAgain ==
    Article(<<"YouTube", "Case">>, <<"study", "playbook">>,
            <<"https://", "tubefilter.com", "/", "a">>, Null)
ArtUntitled ==
    Article(Null, Null, <<"https://", "ppc.land", "/", "c">>, Null)
ArtWeather ==
    Article(<<"Weather">>, <<"monetization", "policy">>,
            <<"https://", "ppc.land", "/", "d">>, <<"2024-01-03">>)
ArtBlank ==
    Article(<< >>, << >>, <<"https://", "youtube", "/", "e">>, <<"2024-01-04">>)

\* data.articles when the index holds nothing (Null: the field is absent)
EmptyArticles == {Null, << >>}

\* data.articles of a sparse answer
SparseArticles ==
    { <<ArtLaunch, ArtStreaming, ArtLaunchAgain>>,
      <<ArtWeather, ArtUntitled, ArtLaunch, ArtBlank>> }

BulkTitle(i) ==
    IF i % BulkTitleCycle = 0
       THEN <<"Weather", ToString(i)>>
       ELSE IF i % 3 = 0 THEN <<"YouTube", "launches", ToString(i)>>
       ELSE IF i % 3 = 1 THEN <<"Creator", "episodes", ToString(i)>>
       ELSE <<"TikTok", "update", ToString(i)>>

\* a full page: pageSize articles of the feed's first domain
BulkArticles(feed, pageSize) ==
    [i \in 1..pageSize |->
        Article(BulkTitle(i), << >>,
                <<"https://", feed.domains[1], "/", ToString(i)>>,
                <<"2024-02-01">>)]

\* the bodies the provider may return with an ok status for a search of feed
OkArticles(feed, pageSize) ==
    CASE corpus = "bulk" -> {BulkArticles(feed, pageSize)}
      [] corpus = "sparse" -> SparseArticles
      [] OTHER -> EmptyArticles

\* what is thrown when a search does not deliver articles: a non-ok status, a
\* network error, or an ok answer whose articles cannot be mapped
FetchFailures ==
    {"NewsAPI error", "fetch failed", "data.articles.map is not a function"}

----------------------------------------------------------------------------
(* Item normalisation *)

isoNow == <<"now">>

stableId(url, publishedAt) ==
    <<"sha256">> \o url \o <<"|">> \o OrElse(publishedAt, << >>)

idFor(url) == <<"sha1">> \o url

\* part_000, lines 208-227 and 264-281
BrokerItem(a, feed, exclude) ==
    LET published_at == OrElse(a.publishedAt, isoNow)
    IN  [id |-> stableId(a.url, published_at),
         title |-> OrElse(a.title, <<"(untitled)">>),
         url |-> a.url,
         source |-> feed.feed_id,
         published_at |-> published_at,
         snippet |-> OrElse(a.description, << >>),
         labels |-> << >>,
         classification |->
             classifyDigitalFirst(OrElse(a.title, << >>),
                                  OrElse(a.description, << >>), a.url, exclude)]

\* server.js, lines 107-115
ServerItem(a, feed) ==
    [id |-> idFor(a.url),
     title |-> a.title,
     url |-> a.url,
     source |-> feed.feed_id,
     published_at |-> a.publishedAt,
     snippet |-> a.description,
     classification |-> [digital_first |-> TRUE, excluded_reasons |-> << >>]]

\* data.articles || []
ArticlesOrEmpty(articles) == IF articles = Null THEN << >> ELSE articles

MapItems(articles, feed, exclude) ==
    LET arts == ArticlesOrEmpty(articles)
    IN  [i \in 1..Len(arts) |-> BrokerItem(arts[i], feed, exclude)]

MapServerItems(articles, feed) ==
    LET arts == ArticlesOrEmpty(articles)
    IN  [i \in 1..Len(arts) |-> ServerItem(arts[i], feed)]

IsDigitalFirst(it) == it.classification.digital_first

----------------------------------------------------------------------------
(* Numbers *)

Num(n) == [nan |-> FALSE, halves |-> 2 * n]
Halves(h) == [nan |-> FALSE, halves |-> h]
NaN == [nan |-> TRUE, halves |-> 0]

\* ToIntegerOrInfinity: NaN is 0, otherwise truncate toward zero
ToInteger(x) ==
    IF x.nan THEN 0
    ELSE IF x.halves >= 0 THEN x.halves \div 2
    ELSE 0 - ((0 - x.halves) \div 2)

Min(a, b) == IF a <= b THEN a ELSE b
Max(a, b) == IF a >= b THEN a ELSE b

\* Array.prototype.slice(0, end) for an integer end
Slice0(seq, end) ==
    LET final == IF end < 0 THEN Max(Len(seq) + end, 0) ELSE Min(end, Len(seq))
    IN  SubSeq(seq, 1, final)

----------------------------------------------------------------------------
(* Dedupe by url: a Map keyed by url, in insertion order *)

\* a map whose set would keep the first value of a key
MapSetKeepingFirst(map, it) ==
    IF \E i \in 1..Len(map) : map[i].url = it.url THEN map ELSE Append(map, it)

\* Map.prototype.set: a present key keeps its place and takes the new value
MapSet(map, it) ==
    IF \E i \in 1..Len(map) : map[i].url = it.url
       THEN LET i == CHOOSE k \in 1..Len(map) : map[k].url = it.url
            IN  [map EXCEPT ![i] = it]
       ELSE Append(map, it)

\* for (const it of all) map.set(it.url, it), over items[lo..hi] in order.
\* The range is halved and the map of the first half is evaluated (its length
\* read) before the second half is set, which keeps the evaluation shallow.
RECURSIVE SetAll(_, _, _, _)
SetAll(map, items, lo, hi) ==
    IF lo > hi THEN map
    ELSE IF lo = hi THEN MapSet(map, items[lo])
    ELSE LET mid == (lo + hi) \div 2
             left == SetAll(map, items, lo, mid)
         IN  IF Len(left) >= 0 THEN SetAll(left, items, mid + 1, hi) ELSE left

\* Array.from(byUrl.values()) after setting every collected item
DedupeByUrl(items) == SetAll(<< >>, items, 1, Len(items))

Filter(items, digital_first_only) ==
    IF digital_first_only THEN SelectSeq(items, IsDigitalFirst) ELSE items

----------------------------------------------------------------------------
(* Sections, scoring and citations *)

SectionNames ==
    << <<"New", "digital-first", "launches">>,
       <<"Formats", "&", "creator", "series", "to", "watch">>,
       <<"Platform", "moves", "&", "monetization">>,
       <<"Examples", "(what", "to", "steal-in", "a", "legal", "way)">> >>

LaunchPattern ==
    {<<"launch">>, <<"announce">>, <<"debut">>, <<"unveil">>, <<"introduc">>}
FormatsPattern ==
    {<<"series">>, <<"format">>, <<"episod">>, <<"season">>, <<"shorts">>, <<"reels">>}
PlatformPattern ==
    {<<"monetiz">>, <<"ads">>, <<"revenue">>, <<"policy">>, <<"algorithm">>,
     <<"update">>, <<"creator", "fund">>}
ExamplesPattern ==
    {<<"case", "study">>, <<"example">>, <<"breakdown">>, <<"how", "to">>,
     <<"strategy">>, <<"playbook">>}

\* String.prototype.includes on a section name
NameIncludes(section, word) ==
    \E i \in 1..Len(section) : word \in Substrings(section[i])

score(item, section) ==
    LET t == toLowerCase(item.title \o item.snippet)
    IN  IF NameIncludes(section, "launch") /\ Test(LaunchPattern, t) THEN 4
        ELSE IF NameIncludes(section, "Formats") /\ Test(FormatsPattern, t) THEN 4
        ELSE IF NameIncludes(section, "Platform") /\ Test(PlatformPattern, t) THEN 4
        ELSE IF NameIncludes(section, "Examples") /\ Test(ExamplesPattern, t) THEN 4
        ELSE 1

\* [...items].sort((a, b) => score(b, s) - score(a, s)): a stable sort, so the
\* result is, for each score from the highest down, the items of that score in
\* their original order
IndicesWith(sc, v) == SelectSeq([i \in 1..Len(sc) |-> i], LAMBDA i : sc[i] = v)

RECURSIVE RankOrder(_, _)
RankOrder(sc, left) ==
    IF left = {} THEN << >>
    ELSE LET top == CHOOSE v \in left : \A w \in left : w <= v
         IN  IndicesWith(sc, top) \o RankOrder(sc, left \ {top})

Ranked(items, section) ==
    LET sc == [i \in 1..Len(items) |-> score(items[i], section)]
        order == RankOrder(sc, {sc[i] : i \in 1..Len(items)})
    IN  [k \in 1..Len(order) |-> items[order[k]]]

Entry(it) ==
    [headline |-> it.title,
     blurb |-> OrElse(it.snippet, <<"Summary", "unavailable.">>),
     urls |-> <<it.url>>]

SectionItems(items, section, max_items_per_section) ==
    LET kept == Slice0(Ranked(items, section), ToInteger(max_items_per_section))
    IN  [k \in 1..Len(kept) |-> Entry(kept[k])]

Sections(items, max_items_per_section) ==
    [s \in 1..Len(SectionNames) |->
        [name |-> SectionNames[s],
         items |-> SectionItems(items, SectionNames[s], max_items_per_section)]]

Citation(it) == [url |-> it.url, title |-> it.title, source |-> it.source]

\* citations without the cap
CitationsOfAll(items) == [k \in 1..Len(items) |-> Citation(items[k])]

Citations(items) ==
    LET cited == Slice0(items, CitationCap)
    IN  [k \in 1..Len(cited) |-> Citation(cited[k])]

----------------------------------------------------------------------------
(* Requests *)

HeaderKeys == {Undefined, "", "secret", "wrong"}
BrokerKeys == {Undefined, "", "secret"}
NewsapiKeys == {Undefined, "nk"}

NoBody ==
    [sources |-> [isArray |-> FALSE, elems |-> << >>],
     window_hours |-> << >>,
     max_items_per_section |-> << >>,
     digital_first_only |-> "absent",
     exclude |-> Null]

Request(route, key, feed_id, dfo, exclude, body) ==
    [route |-> route, key |-> key, feed_id |-> feed_id,
     digital_first_only |-> dfo, exclude |-> exclude, body |-> body]

NoRequest == Request("none", Undefined, "", Undefined, Null, NoBody)

\* query.exclude, already cut at its commas (Null: the parameter is absent)
QueryExcludes == {Null, <<"linear", " ", "">>, <<" streaming ">>}
QueryDigitalFirstOnly == {Undefined, "false"}
FeedIdParams == {"tubefilter", "unknown_feed"}

ItemsRequests ==
    {Request("items", k, f, d, e, NoBody) :
        k \in HeaderKeys, f \in FeedIdParams,
        d \in QueryDigitalFirstOnly, e \in QueryExcludes}

AllSources ==
    <<"tiktok_creativecenter_trends", "nope", "google_news_youtube_series_us_en",
      "hollywood_reporter", "publishpress", "tubefilter", "ppc_land">>

\* body.sources: missing or not an array, empty, unknown only, two feeds named
\* out of catalog order with a duplicate, and every feed of the catalog
BodySources ==
    { [isArray |-> FALSE, elems |-> << >>],
      [isArray |-> FALSE, elems |-> <<"tubefilter">>],
      [isArray |-> TRUE, elems |-> << >>],
      [isArray |-> TRUE, elems |-> <<"nope">>],
      [isArray |-> TRUE, elems |-> <<"tubefilter", "ppc_land", "tubefilter">>],
      [isArray |-> TRUE, elems |-> AllSources] }

\* body.max_items_per_section after Number(): absent, the integers of the range,
\* a fraction on either side of zero, and a value Number() maps to NaN
BodyMaxItems ==
    {<< >>, <<NaN>>, <<Halves(0 - 1)>>, <<Halves(2 * MaxItemsRange + 1)>>}
    \cup {<<Num(n)>> : n \in (0 - MaxItemsRange)..MaxItemsRange}

\* body.window_hours after Number(): absent, or a value that gives no valid date
BodyWindowHours == {<< >>, <<NaN>>}

BodyDigitalFirstOnly == {"absent", "false"}
BodyExcludes == {Null, <<"linear">>}

DigestBodies ==
    [sources : BodySources, window_hours : BodyWindowHours,
     max_items_per_section : BodyMaxItems,
     digital_first_only : BodyDigitalFirstOnly, exclude : BodyExcludes]

DigestRequests ==
    {Request("digest", k, "", Undefined, Null, b) :
        k \in HeaderKeys, b \in DigestBodies}

SimpleRequests ==
    {Request(r, k, "", Undefined, Null, NoBody) :
        r \in {"sources", "health"}, k \in HeaderKeys}

Requests == ItemsRequests \cup DigestRequests \cup SimpleRequests

----------------------------------------------------------------------------
(* Responses *)

Response(status, kind, message, items, sections, citations) ==
    [status |-> status, kind |-> kind, message |-> message, items |-> items,
     sections |-> sections, citations |-> citations]

NoResponse == Response(0, "none", "", << >>, << >>, << >>)
ErrorResponse(status, message) ==
    Response(status, "error", message, << >>, << >>, << >>)

----------------------------------------------------------------------------
(* The auth middleware *)

\* server.js: a strict inequality of the header and the environment variable
ServerAuthRejects(r) == r.key # BROKER_KEY

\* part_000: also rejects when either side is unset or empty
BrokerAuthRejects(r) ==
    \/ ~TruthyKey(BROKER_KEY)
    \/ ~TruthyKey(r.key)
    \/ r.key # BROKER_KEY

AuthRejects(r) ==
    IF variant = "server" THEN ServerAuthRejects(r) ELSE BrokerAuthRejects(r)

UnauthorizedMessage ==
    IF variant = "server" THEN "Invalid API key" ELSE "Missing/invalid API key"

\* the routes each variant registers
Routes ==
    IF variant = "server" THEN {"sources", "items"}
    ELSE {"sources", "items", "digest", "health"}

----------------------------------------------------------------------------
(* Parameters of the handlers *)

\* String.prototype.trim on one piece of the exclude parameter
Trim(piece) ==
    CASE piece = " " -> ""
      [] piece = " streaming " -> "streaming"
      [] OTHER -> piece

NonEmpty(piece) == piece # ""

\* String(req.query.exclude ?? "linear,streaming").split(",").map(trim).filter(Boolean)
QueryExclude(r) ==
    LET pieces == IF r.exclude = Null THEN <<"linear", "streaming">> ELSE r.exclude
    IN  SelectSeq([i \in 1..Len(pieces) |-> Trim(pieces[i])], NonEmpty)

\* String(req.query.digital_first_only ?? "true") === "true"
QueryDigitalFirst(r) ==
    (IF r.digital_first_only = Undefined THEN "true" ELSE r.digital_first_only) = "true"

\* Math.min(Number(req.query.limit ?? 15), 50), the limit parameter being absent
ItemsPageSize == IF variant = "server" THEN DefaultLimit ELSE Min(DefaultLimit, MaxLimit)

\* Array.isArray(body.sources) ? body.sources : []
BodySourcesOf(r) == IF r.body.sources.isArray THEN r.body.sources.elems ELSE << >>

\* Number(body.max_items_per_section ?? 6)
MaxItemsOf(r) ==
    IF r.body.max_items_per_section = << >> THEN Num(DefaultMaxItems)
    ELSE r.body.max_items_per_section[1]

\* new Date(Date.now() - window_hours * 3600 * 1000).toISOString() throws a
\* RangeError when Number(body.window_hours ?? 168) gives no valid date
FromISOThrows(r) ==
    r.body.window_hours # << >> /\ r.body.window_hours[1].nan

RangeMessage == "Invalid time value"

\* body.digital_first_only !== false
BodyDigitalFirst(r) == r.body.digital_first_only # "false"

\* Array.isArray(body.exclude) ? body.exclude : ["linear", "streaming"]
BodyExclude(r) ==
    IF r.body.exclude = Null THEN <<"linear", "streaming">> ELSE r.body.exclude

\* a selection that would follow body.sources, one fetch per named source
SelectedInSourcesOrder(sources) ==
    LET named == SelectSeq(sources, LAMBDA id : FindFeed(id) # 0)
    IN  [i \in 1..Len(named) |-> FEEDS[FindFeed(named[i])]]

\* FEEDS.filter(f => sources.includes(f.feed_id))
SelectedFeeds(sources) ==
    SelectSeq(FEEDS, LAMBDA f : Includes(sources, f.feed_id))

\* newsapiEverything throws before fetch when the key is unset; newsapiFetch
\* of server.js has no such test
SearchThrowsConfig == variant = "broker" /\ ~TruthyKey(NEWSAPI_KEY)

ConfigMessage == "Server misconfigured: NEWSAPI_KEY missing"

\* the provider answers ok only to a request that carries a key
ProviderAnswersOk == TruthyKey(NEWSAPI_KEY)

\* lines 291-330: filter, sections and citations of the digest
Digest(deduped, r) ==
    LET items == Filter(deduped, BodyDigitalFirst(r))
    IN  Response(200, "digest", "", << >>,
                 Sections(items, MaxItemsOf(r)), Citations(items))

----------------------------------------------------------------------------
(* Actions *)

Init ==
    /\ variant \in {"server", "broker"}
    /\ BROKER_KEY \in BrokerKeys
    /\ NEWSAPI_KEY \in NewsapiKeys
    /\ corpus \in {"empty", "sparse", "bulk"}
    /\ pc = "idle"
    /\ req = NoRequest
    /\ res = NoResponse
    /\ handlerRan = FALSE
    /\ providerCalls = << >>
    /\ outcomes = << >>
    /\ selected = << >>
    /\ all = << >>
    /\ byUrl = << >>

Env == <<variant, BROKER_KEY, NEWSAPI_KEY, corpus>>

\* the middleware answers 401 and the request goes no further
Unauthorized ==
    /\ pc = "idle"
    /\ \E r \in Requests :
          /\ AuthRejects(r)
          /\ req' = r
          /\ res' = ErrorResponse(401, UnauthorizedMessage)
    /\ pc' = "done"
    /\ UNCHANGED <<Env, handlerRan, providerCalls, outcomes, selected, all, byUrl>>

\* no route of this variant matches: the framework's 404
NoRoute ==
    /\ pc = "idle"
    /\ \E r \in Requests :
          /\ ~AuthRejects(r)
          /\ r.route \notin Routes
          /\ req' = r
          /\ res' = ErrorResponse(404, "Cannot " \o r.route)
    /\ pc' = "done"
    /\ UNCHANGED <<Env, handlerRan, providerCalls, outcomes, selected, all, byUrl>>

GetHealth ==
    /\ pc = "idle"
    /\ \E r \in SimpleRequests :
          /\ ~AuthRejects(r)
          /\ r.route = "health"
          /\ r.route \in Routes
          /\ req' = r
          /\ res' = Response(200, "text", "OK", << >>, << >>, << >>)
    /\ handlerRan' = TRUE
    /\ pc' = "done"
    /\ UNCHANGED <<Env, providerCalls, outcomes, selected, all, byUrl>>

GetSources ==
    /\ pc = "idle"
    /\ \E r \in SimpleRequests :
          /\ ~AuthRejects(r)
          /\ r.route = "sources"
          /\ req' = r
          /\ res' = Response(200, "sources", "",
                             [i \in 1..Len(FEEDS) |->
                                 [feed_id |-> FEEDS[i].feed_id, name |-> FEEDS[i].name]],
                             << >>, << >>)
    /\ handlerRan' = TRUE
    /\ pc' = "done"
    /\ UNCHANGED <<Env, providerCalls, outcomes, selected, all, byUrl>>

\* GET /v1/feeds/:feed_id/items up to its await
GetFeedItems ==
    /\ pc = "idle"
    /\ \E r \in ItemsRequests :
          /\ ~AuthRejects(r)
          /\ req' = r
          /\ IF FindFeed(r.feed_id) = 0
                THEN /\ res' = ErrorResponse(404, "Unknown feed_id")
                     /\ pc' = "done"
                     /\ UNCHANGED providerCalls
             ELSE IF SearchThrowsConfig
                THEN /\ res' = ErrorResponse(500, ConfigMessage)
                     /\ pc' = "done"
                     /\ UNCHANGED providerCalls
             ELSE /\ res' = NoResponse
                  /\ pc' = "items_await"
                  /\ providerCalls' = <<r.feed_id>>
    /\ handlerRan' = TRUE
    /\ UNCHANGED <<Env, outcomes, selected, all, byUrl>>

\* the rest of the feed-items handler, once the provider has answered
ItemsProviderAnswers ==
    /\ pc = "items_await"
    /\ LET feed == FEEDS[FindFeed(req.feed_id)]
       IN  \/ \E message \in FetchFailures :
                 /\ res' = ErrorResponse(500, message)
                 /\ outcomes' = <<message>>
           \/ /\ ProviderAnswersOk
              /\ outcomes' = <<"ok">>
              /\ \E articles \in OkArticles(feed, ItemsPageSize) :
                    res' = Response(200, "items", "",
                              IF variant = "server"
                                 THEN MapServerItems(articles, feed)
                                 ELSE Filter(MapItems(articles, feed, QueryExclude(req)),
                                             QueryDigitalFirst(req)),
                              << >>, << >>)
    /\ pc' = "done"
    /\ UNCHANGED <<Env, req, handlerRan, providerCalls, selected, all, byUrl>>

\* POST /v1/newsletter/digest up to its first await
PostDigest ==
    /\ pc = "idle"
    /\ "digest" \in Routes
    /\ \E r \in DigestRequests :
          /\ ~AuthRejects(r)
          /\ req' = r
          /\ LET sources == BodySourcesOf(r)
                 sel == SelectedFeeds(sources)
             IN  IF Len(sources) = 0
                    THEN /\ res' = ErrorResponse(422, "Invalid inputs (empty sources)")
                         /\ pc' = "done"
                         /\ UNCHANGED <<providerCalls, selected>>
                 ELSE IF FromISOThrows(r)
                    THEN /\ res' = ErrorResponse(500, RangeMessage)
                         /\ pc' = "done"
                         /\ UNCHANGED <<providerCalls, selected>>
                 ELSE IF Len(sel) = 0
                    THEN /\ res' = ErrorResponse(422, "Invalid inputs (no matching sources)")
                         /\ pc' = "done"
                         /\ UNCHANGED <<providerCalls, selected>>
                 ELSE IF SearchThrowsConfig
                    THEN /\ res' = ErrorResponse(500, ConfigMessage)
                         /\ pc' = "done"
                         /\ selected' = sel
                         /\ UNCHANGED providerCalls
                 ELSE /\ res' = NoResponse
                      /\ pc' = "digest_await"
                      /\ selected' = sel
                      /\ providerCalls' = <<sel[1].feed_id>>
    /\ handlerRan' = TRUE
    /\ UNCHANGED <<Env, outcomes, all, byUrl>>

\* the loop goes on to the next selected feed, or past its end to the response
DigestContinue(collected, n) ==
    /\ all' = collected
    /\ IF n < Len(selected)
          THEN /\ providerCalls' = Append(providerCalls, selected[n + 1].feed_id)
               /\ pc' = "digest_await"
               /\ UNCHANGED <<res, byUrl>>
          ELSE /\ byUrl' = DedupeByUrl(collected)
               /\ res' = Digest(byUrl', req)
               /\ pc' = "done"
               /\ UNCHANGED providerCalls

\* a loop that would drop a failed feed and carry on with the others
DigestProviderAnswersSkippingFailures ==
    /\ pc = "digest_await"
    /\ LET n == Len(providerCalls)
           feed == selected[n]
       IN  \/ /\ \E message \in FetchFailures : outcomes' = Append(outcomes, message)
              /\ DigestContinue(all, n)
           \/ /\ ProviderAnswersOk
              /\ outcomes' = Append(outcomes, "ok")
              /\ \E articles \in OkArticles(feed, DigestPageSize) :
                    DigestContinue(all \o MapItems(articles, feed, BodyExclude(req)), n)
    /\ UNCHANGED <<Env, req, handlerRan, selected>>

\* the fetch loop of the digest, from one await to the next or to the response:
\* a fetch that throws leaves the loop for the catch handler
DigestProviderAnswers ==
    /\ pc = "digest_await"
    /\ LET n == Len(providerCalls)
           feed == selected[n]
       IN  \/ /\ \E message \in FetchFailures :
                    /\ res' = ErrorResponse(500, message)
                    /\ outcomes' = Append(outcomes, message)
              /\ pc' = "done"
              /\ UNCHANGED <<providerCalls, all, byUrl>>
           \/ /\ ProviderAnswersOk
              /\ outcomes' = Append(outcomes, "ok")
              /\ \E articles \in OkArticles(feed, DigestPageSize) :
                    DigestContinue(all \o MapItems(articles, feed, BodyExclude(req)), n)
    /\ UNCHANGED <<Env, req, handlerRan, selected>>

\* the response is out; the process waits for the next request
NextRequest ==
    /\ pc = "done"
    /\ pc' = "idle"
    /\ req' = NoRequest
    /\ res' = NoResponse
    /\ handlerRan' = FALSE
    /\ providerCalls' = << >>
    /\ outcomes' = << >>
    /\ selected' = << >>
    /\ all' = << >>
    /\ byUrl' = << >>
    /\ UNCHANGED Env

Next ==
    \/ Unauthorized
    \/ GetSources
    \/ GetFeedItems
    \/ ItemsProviderAnswers
    \/ PostDigest
    \/ DigestProviderAnswers
    \/ GetHealth
    \/ NoRoute
    \/ NextRequest

Spec == Init /\ [][Next]_vars

----------------------------------------------------------------------------
(* Properties *)

Served == req # NoRequest
DigestHandled == Served /\ req.route = "digest" /\ handlerRan
DigestAnswered == pc = "done" /\ res.kind = "digest"
ItemsAnswered == pc = "done" /\ res.kind = "items"

\* the items a response returns, or a digest has collected
ItemsOut == IF ItemsAnswered THEN res.items ELSE all

KeyMissingOrWrong == req.key = Undefined \/ req.key # BROKER_KEY

RejectedUnserved ==
    /\ pc = "done"
    /\ res.status = 401
    /\ ~handlerRan
    /\ providerCalls = << >>

\* C1: in both variants and for every configuration of the broker secret, a
\* request whose X-API-Key is missing or differs from the secret is rejected
\* with 401, no route handler runs and no provider call is made.
C1_BadKeyRejected == (Served /\ KeyMissingOrWrong) => RejectedUnserved

\* C1 restricted to part_000, whose middleware tests both sides for emptiness
C1_BrokerBadKeyRejected ==
    (variant = "broker" /\ Served /\ KeyMissingOrWrong) => RejectedUnserved

\* the digital-first hint pattern matched the item's title/description/url text
HintMatched(it) ==
    Test(digitalHints,
         classifyText(OrElse(it.title, << >>), OrElse(it.snippet, << >>), it.url))

DigitalFirstJustified(it) ==
    it.classification.digital_first =>
        /\ it.classification.excluded_reasons = << >>
        /\ HintMatched(it)

\* C3: in either variant, every item returned by the feed-items endpoint or used
\* in a digest has digital_first true only if excluded_reasons is empty and the
\* digital-first hint pattern matched its title/description/url text.
C3_DigitalFirstOnlyIfHinted ==
    \A i \in 1..Len(ItemsOut) : DigitalFirstJustified(ItemsOut[i])

\* C3 restricted to part_000, which classifies every item
C3_BrokerDigitalFirstOnlyIfHinted ==
    variant = "broker" => \A i \in 1..Len(ItemsOut) : DigitalFirstJustified(ItemsOut[i])

\* n <= x for an integer n and a number x (false when x is NaN)
LeqNumber(n, x) == ~x.nan /\ 2 * n <= x.halves

\* C4: in every successful digest response, for every accepted value of
\* max_items_per_section, each of the four sections has at most
\* max_items_per_section items.
C4_SectionSizeBound ==
    DigestAnswered =>
        /\ Len(res.sections) = 4
        /\ \A s \in 1..Len(res.sections) :
              LeqNumber(Len(res.sections[s].items), MaxItemsOf(req))

\* C4 for the values the slice treats as a count: non-negative numbers
C4_SectionSizeBoundNonNegative ==
    (DigestAnswered /\ LeqNumber(0, MaxItemsOf(req))) =>
        \A s \in 1..Len(res.sections) :
            LeqNumber(Len(res.sections[s].items), MaxItemsOf(req))

\* C6: in both variants, when NEWSAPI_KEY is absent a search sends no provider
\* request and the request that needed it ends in an error response.
C6_NoCallWithoutCredential ==
    (NEWSAPI_KEY = Undefined /\ Served) =>
        /\ providerCalls = << >>
        /\ (pc = "done" /\ handlerRan /\ req.route \in {"items", "digest"})
              => res.status >= 400

\* C6 restricted to part_000, whose search tests the key before fetch
C6_BrokerNoCallWithoutCredential ==
    (variant = "broker" /\ NEWSAPI_KEY = Undefined /\ Served) =>
        /\ providerCalls = << >>
        /\ (pc = "done" /\ handlerRan /\ req.route \in {"items", "digest"})
              => res.status >= 400

TitleAndSnippetPresent(it) ==
    /\ it.title # Null
    /\ it.title # << >>
    /\ it.snippet # Null

\* C7: in either variant and on both paths, every item has a non-empty title
\* (the provider's, or the placeholder "(untitled)") and a snippet that is never
\* null or absent.
C7_TitleNonEmpty ==
    \A i \in 1..Len(ItemsOut) : TitleAndSnippetPresent(ItemsOut[i])

\* C7 restricted to part_000, which applies the defaults
C7_BrokerTitleNonEmpty ==
    variant = "broker" => \A i \in 1..Len(ItemsOut) : TitleAndSnippetPresent(ItemsOut[i])

----------------------------------------------------------------------------
(* Properties of the digest *)

UrlsOf(items) == {items[i].url : i \in 1..Len(items)}
Range(seq) == {seq[i] : i \in 1..Len(seq)}

IsLastSeen(items, j) == \A k \in (j + 1)..Len(items) : items[k].url # items[j].url

\* C2: the deduplicated set holds exactly one item per distinct url collected,
\* no two of its items share a url, and the survivor of each url is the
\* last-seen occurrence in collection order, unedited.
C2_DedupeLastSeenWins ==
    DigestAnswered =>
        /\ UrlsOf(byUrl) = UrlsOf(all)
        /\ Cardinality(UrlsOf(byUrl)) = Len(byUrl)
        /\ \A j \in 1..Len(all) : IsLastSeen(all, j) => all[j] \in Range(byUrl)

\* a digest whose collection holds a url twice within one feed and a url in two
\* feeds, the later occurrence differing from the earlier one
C2_DuplicatesCollapsed ==
    /\ DigestAnswered
    /\ Len(byUrl) < Len(all)
    /\ \E i, j \in 1..Len(all) :
          /\ i < j
          /\ all[i].url = all[j].url
          /\ all[i].source # all[j].source
          /\ IsLastSeen(all, j)
          /\ all[j] \in Range(byUrl)
          /\ all[i] \notin Range(byUrl)
    /\ \E i, j \in 1..Len(all) :
          /\ i < j
          /\ all[i].url = all[j].url
          /\ all[i].source = all[j].source
          /\ all[i].title # all[j].title

AnyFetchFailed == \E i \in 1..Len(outcomes) : outcomes[i] # "ok"

\* C5: when the fetch of any one selected feed fails, the digest request ends
\* with a 500 {message} response carrying no sections, citations or items, and
\* no fetch is issued after the failure; a Digest is returned only if the fetch
\* of every selected feed succeeded.
C5_FailedFetchAbortsDigest ==
    DigestHandled =>
        /\ AnyFetchFailed =>
              /\ pc = "done"
              /\ res = ErrorResponse(500, outcomes[Len(outcomes)])
              /\ Len(providerCalls) = Len(outcomes)
              /\ \A i \in 1..(Len(outcomes) - 1) : outcomes[i] = "ok"
        /\ res.kind = "digest" =>
              /\ Len(outcomes) = Len(selected)
              /\ \A i \in 1..Len(outcomes) : outcomes[i] = "ok"

\* a digest over at least three feeds whose second fetch failed after the first
\* had delivered items
C5_SecondFetchFailed ==
    /\ DigestHandled
    /\ pc = "done"
    /\ Len(selected) >= 3
    /\ Len(outcomes) = 2
    /\ outcomes[1] = "ok"
    /\ outcomes[2] # "ok"
    /\ all # << >>
    /\ res.status = 500

CitationOf(it) == [url |-> it.url, title |-> it.title, source |-> it.source]

DigitalFirstOnly == req.body.digital_first_only # "false"

\* the candidate items of the digest: the dedupe output, less the items that
\* are not digital-first unless the request turned the filter off
Candidates == IF DigitalFirstOnly THEN SelectSeq(byUrl, IsDigitalFirst) ELSE byUrl

\* C8 as stated: citations are the first 200 items of the deduplicated set, in
\* dedupe order, mapped to {url, title, source}, whatever digital_first_only is.
C8_CitationsPrefixOfDeduped ==
    DigestAnswered =>
        /\ Len(res.citations) = Min(200, Len(byUrl))
        /\ \A k \in 1..Len(res.citations) : res.citations[k] = CitationOf(byUrl[k])

\* C8 amended: citations are the first 200 candidate items (the dedupe output
\* after the digital-first filter, when it applies), in dedupe order, mapped to
\* {url, title, source}; with the filter off that is the prefix of the dedupe
\* output.
C8_CitationsPrefixOfCandidates ==
    DigestAnswered =>
        /\ Len(res.citations) = Min(200, Len(Candidates))
        /\ \A k \in 1..Len(res.citations) : res.citations[k] = CitationOf(Candidates[k])
        /\ ~DigitalFirstOnly => Candidates = byUrl

\* a filtered digest with more than 200 candidates, cut to 200 citations
C8_CitationsCut ==
    /\ DigestAnswered
    /\ DigitalFirstOnly
    /\ Len(Candidates) > 200
    /\ Len(byUrl) > Len(Candidates)
    /\ Len(res.citations) = 200

CatalogIds == [i \in 1..Len(FEEDS) |-> FEEDS[i].feed_id]

SourcesNamed ==
    IF req.body.sources.isArray THEN Range(req.body.sources.elems) ELSE {}

SourcesInvalid == SourcesNamed \cap Range(CatalogIds) = {}

\* the matching catalog feeds, each once, in catalog order
ExpectedFetches == SelectSeq(CatalogIds, LAMBDA id : id \in SourcesNamed)

InvalidInputsMessages ==
    {"Invalid inputs (empty sources)", "Invalid inputs (no matching sources)"}

InvalidAnswered422 ==
    /\ pc = "done"
    /\ res.status = 422
    /\ res.message \in InvalidInputsMessages
    /\ providerCalls = << >>

IsPrefix(a, b) == Len(a) <= Len(b) /\ SubSeq(b, 1, Len(a)) = a

SourcesEmpty == ~req.body.sources.isArray \/ req.body.sources.elems = << >>

WindowUnusable == req.body.window_hours # << >> /\ req.body.window_hours[1].nan

RangeErrorAnswered500 ==
    /\ pc = "done"
    /\ res = ErrorResponse(500, "Invalid time value")
    /\ providerCalls = << >>

C9_UnknownSourcesRejected ==
    /\ DigestHandled
    /\ req.body.sources.elems = <<"nope">>
    /\ InvalidAnswered422

----------------------------------------------------------------------------
(* Properties of the section ranking *)

SectionPatterns ==
    <<LaunchPattern, FormatsPattern, PlatformPattern, ExamplesPattern>>

\* 4 when the pattern of section s matches the item's lower-case title and
\* snippet, otherwise 1
SectionScore(it, s) ==
    IF Test(SectionPatterns[s], toLowerCase(it.title \o it.snippet)) THEN 4 ELSE 1

\* how many items "the top max_items_per_section of n" are
TopCount(m, n) ==
    IF m.nan THEN 0 ELSE Min(n, Max(0, m.halves \div 2))

\* the candidate an entry was rendered from (candidates are unique by url)
OriginOf(entry) == CHOOSE i \in 1..Len(Candidates) : Candidates[i].url = entry.urls[1]

\* i comes before j in the order of section s: higher score first, ties in
\* candidate order
RanksBefore(i, j, s) ==
    LET si == SectionScore(Candidates[i], s)
        sj == SectionScore(Candidates[j], s)
    IN  si > sj \/ (si = sj /\ i < j)

SectionIsTopRanked(s) ==
    LET entries == res.sections[s].items
        origin == [k \in 1..Len(entries) |-> OriginOf(entries[k])]
    IN  /\ Len(entries) = TopCount(MaxItemsOf(req), Len(Candidates))
        /\ \A k \in 1..Len(entries) :
              /\ entries[k].urls = <<Candidates[origin[k]].url>>
              /\ entries[k].headline = Candidates[origin[k]].title
              /\ entries[k].blurb \in {Candidates[origin[k]].snippet,
                                       <<"Summary", "unavailable.">>}
        /\ \A k \in 1..(Len(entries) - 1) : RanksBefore(origin[k], origin[k + 1], s)
        /\ \A i \in 1..Len(Candidates) :
              (\A k \in 1..Len(entries) : origin[k] # i) =>
                 \A k \in 1..Len(entries) : RanksBefore(origin[k], i, s)

\* C10: each section's entries are the top max_items_per_section of the full
\* candidate set ordered by that section's score (4 on a keyword match, else 1)
\* descending, ties in dedupe order, each entry derived from one candidate.
C10_SectionsTopRanked ==
    DigestAnswered =>
        /\ Len(res.sections) = 4
        /\ \A s \in 1..4 : res.sections[s].name = SectionNames[s]
        /\ \A s \in 1..Len(res.sections) : SectionIsTopRanked(s)

\* C10 for the values the slice treats as a count: every value that is not
\* negative
C10_SectionsTopRankedNonNegative ==
    (DigestAnswered /\ (MaxItemsOf(req).nan \/ MaxItemsOf(req).halves >= 0)) =>
        \A s \in 1..Len(res.sections) : SectionIsTopRanked(s)

\* a ranking that moved a later candidate ahead of an earlier one, and put one
\* candidate into two sections
C10_RankingReordered ==
    /\ DigestAnswered
    /\ MaxItemsOf(req) = Num(2)
    /\ Len(Candidates) > 2
    /\ \E s \in 1..4 :
          /\ Len(res.sections[s].items) = 2
          /\ OriginOf(res.sections[s].items[1]) > 2
    /\ \E s, t \in 1..4 :
          /\ s # t
          /\ res.sections[s].items[1] = res.sections[t].items[1]

=============================================================================
